---- MODULE Spec2Model ----
(***************************************************************************)
(* Model of the allocation-free string lexer (src/src/lex.rs) and of the   *)
(* ANSI escape sequence grammar built on it (src/src/ansi.rs).             *)
(*                                                                         *)
(* A &str is modelled as a view [base, ptr, len]: the allocation it points *)
(* into, the byte offset of its first byte and its length in bytes.  The   *)
(* input buffer is a sequence of Unicode scalar values; offsets count      *)
(* UTF-8 bytes, as the slicing arithmetic of the source does.              *)
(***************************************************************************)
EXTENDS Integers, Sequences, FiniteSets, TLC

VARIABLES
    buf,     \* the input buffer: a sequence of Unicode scalar values
    lexer,   \* the cursor: a Lexer
    dup,     \* the duplicates of the cursor alive: <<>> or <<a Lexer>>
    last,    \* the last call: operation, cursor it ran on, arguments, that
             \* cursor before the call, and the value returned
    marked   \* history: for each cursor, the text remaining() showed when
             \* mark() was last called on it (or when it was constructed)

vars == <<buf, lexer, dup, last, marked>>

\* ------------------------------------------------------------------------
\* Bounds of the model.
\* Longest input of the cursor specification (Spec).
MaxLen == 3
\* Largest argument of skip.
MaxSkip == 2
\* Longest input of the grammar specification (SpecParse).
MaxParseLen == 4
\* Longest input of the two-cursor specification (SpecClone).
MaxCloneLen == 3
\* Longest input of the control sequence specification (SpecCSI).
MaxCsiLen == 5
\* Longest input of the specification of duplicates and productions (SpecDup).
MaxDupLen == 3

\* ------------------------------------------------------------------------
\* Characters the grammar names.
ESC == 27
BEL == 7
LBRACKET == 91
RBRACKET == 93
BACKSLASH == 92

\* Sample of input characters: ESC, BEL, '[', ']', '\', '$' (0x24, an
\* intermediate), '3' (0x33, a CSI parameter and generic finalizer) and
\* U+00E9 (two bytes in UTF-8, in no class).
Alphabet == {ESC, BEL, LBRACKET, RBRACKET, BACKSLASH, 36, 51, 233}

\* Characters of the inputs of the cursor specification: ESC, '$', U+00E9.
LexAlphabet == {ESC, 36, 233}

\* Characters of the inputs of the two-cursor specification.
CloneAlphabet == {ESC, 233}

\* Characters of the inputs of the control sequence specification: ESC, '['
\* (introducer and CSI finalizer), '3' (parameter), '$' (intermediate), U+00E9.
CsiAlphabet == {ESC, LBRACKET, 51, 36, 233}

\* Characters of the inputs of the specification of duplicates and
\* productions: ESC and '3' (a generic finalizer).
DupAlphabet == {ESC, 51}

\* ------------------------------------------------------------------------
\* Character classes (ansi.rs).
is_sequence_opener(c) == c = ESC

is_sequence_finalizer(c) == c >= 48 /\ c <= 126

is_sequence_intermediate(c) == c >= 32 /\ c <= 47

is_csi_finalizer(c) == c >= 64 /\ c <= 126

is_csi_parameter(c) == c >= 48 /\ c <= 63

is_csi_intermediate(c) == c >= 32 /\ c <= 47

is_st_opener(c) == c = BEL \/ is_sequence_opener(c)

\* A predicate handed to the lexer, by name.  The closures are those of
\* ansi.rs and of the tests of lex.rs.
Pattern(p, c) ==
    CASE p = "is_sequence_opener" -> is_sequence_opener(c)
      [] p = "is_sequence_finalizer" -> is_sequence_finalizer(c)
      [] p = "is_sequence_intermediate" -> is_sequence_intermediate(c)
      [] p = "is_csi_finalizer" -> is_csi_finalizer(c)
      [] p = "is_csi_parameter" -> is_csi_parameter(c)
      [] p = "is_csi_intermediate" -> is_csi_intermediate(c)
      [] p = "is_st_opener" -> is_st_opener(c)
      [] p = "not_st_opener" -> ~is_st_opener(c)
      [] p = "is_backslash" -> c = BACKSLASH
      [] p = "any" -> TRUE
      [] OTHER -> FALSE

\* ------------------------------------------------------------------------
\* Strings: UTF-8 lengths and views.

\* char::len_utf8
Utf8Len(c) == IF c < 128 THEN 1 ELSE IF c < 2048 THEN 2 ELSE IF c < 65536 THEN 3 ELSE 4

RECURSIVE StrLen(_)
\* str::len of a sequence of characters: its length in bytes.
StrLen(s) == IF s = <<>> THEN 0 ELSE Utf8Len(Head(s)) + StrLen(Tail(s))

RECURSIVE CharsBeforeFrom(_, _, _)
\* Walks the input buffer from character i, which starts at byte `start`,
\* and counts the characters that start before byte `off`.
CharsBeforeFrom(i, start, off) ==
    IF i > Len(buf) \/ start >= off THEN i - 1
    ELSE CharsBeforeFrom(i + 1, start + Utf8Len(buf[i]), off)

\* Number of characters of the input buffer that start before byte `off`.
CharsBefore(off) == CharsBeforeFrom(1, 0, off)

View(b, p, l) == [base |-> b, ptr |-> p, len |-> l]

NoView == View("none", 0, 0)

\* The string literals "\x07" and "\x1B\\" of ansi.rs: statics of the binary.
STATIC_BEL == View("static_bel", 0, 1)

STATIC_ST == View("static_st", 0, 2)

\* The character of the input buffer that starts at byte `off`.
CharAt(off) == buf[CharsBefore(off) + 1]

\* The characters a view denotes.
Content(v) ==
    CASE v.base = "input" -> SubSeq(buf, CharsBefore(v.ptr) + 1, CharsBefore(v.ptr + v.len))
      [] v.base = "static_bel" -> SubSeq(<<BEL>>, v.ptr + 1, v.ptr + v.len)
      [] v.base = "static_st" -> SubSeq(<<ESC, BACKSLASH>>, v.ptr + 1, v.ptr + v.len)
      [] OTHER -> <<>>

\* Chars::next / CharIndices::next on the iterator whose rest is view `it`:
\* none at the end, else the first character and the advanced iterator.
IterNext(it) ==
    IF it.len <= 0 \/ CharsBefore(it.ptr) >= Len(buf)
    THEN [some |-> FALSE, c |-> 0, iter |-> it]
    ELSE LET c == CharAt(it.ptr)
         IN [some |-> TRUE, c |-> c,
             iter |-> View(it.base, it.ptr + Utf8Len(c), it.len - Utf8Len(c))]

\* &s[0..n]
SliceTo(s, n) == View(s.base, s.ptr, n)

\* ------------------------------------------------------------------------
\* Results.
Ok(v) == [ok |-> TRUE, err |-> "none", val |-> v]

Err(e) == [ok |-> FALSE, err |-> e, val |-> NoView]

Ret(l, r) == [lexer |-> l, res |-> r]

\* ------------------------------------------------------------------------
\* Lexer (lex.rs).

Lexer_new(string) == [cursor |-> string, cursor_saved |-> string]

RECURSIVE extract_loop_eager(_, _, _)
\* Seeded fault: the loop records the iterator before it tests the character,
\* so the first character that fails the pattern is consumed with the run.
extract_loop_eager(iter, last_iter, pattern) ==
    LET nx == IterNext(iter)
    IN IF ~nx.some THEN last_iter
       ELSE IF ~Pattern(pattern, nx.c) THEN nx.iter
       ELSE extract_loop_eager(nx.iter, nx.iter, pattern)

RECURSIVE extract_loop(_, _, _)
\* The while-let loop of extract: the value of last_iter when it ends.
extract_loop(iter, last_iter, pattern) ==
    LET nx == IterNext(iter)
    IN IF ~nx.some THEN last_iter
       ELSE IF ~Pattern(pattern, nx.c) THEN last_iter
       ELSE extract_loop(nx.iter, nx.iter, pattern)

\* Seeded fault: the cursor is set to the extracted slice, not to the rest.
extract_swapped(self, pattern) ==
    IF self.cursor.len = 0
    THEN Ret(self, Err("EOF"))
    ELSE LET remaining_ == extract_loop(self.cursor, self.cursor, pattern)
             extracted == SliceTo(self.cursor, self.cursor.len - remaining_.len)
         IN Ret([self EXCEPT !.cursor = extracted], Ok(extracted))

\* Seeded fault: an exhausted cursor yields an empty run, not EOF.
extract_noeof(self, pattern) ==
    LET remaining_ == extract_loop(self.cursor, self.cursor, pattern)
        extracted == SliceTo(self.cursor, self.cursor.len - remaining_.len)
    IN Ret([self EXCEPT !.cursor = remaining_], Ok(extracted))

extract(self, pattern) ==
    IF self.cursor.len = 0
    THEN Ret(self, Err("EOF"))
    ELSE LET remaining_ == extract_loop(self.cursor, self.cursor, pattern)
             extracted == SliceTo(self.cursor, self.cursor.len - remaining_.len)
         IN Ret([self EXCEPT !.cursor = remaining_], Ok(extracted))

\* Seeded fault: a character that fails the pattern is consumed all the same.
extract_one_advancing(self, pattern) ==
    LET first == IterNext(self.cursor)
    IN IF first.some
       THEN IF Pattern(pattern, first.c)
            THEN Ret([self EXCEPT !.cursor = first.iter],
                     Ok(SliceTo(self.cursor, first.iter.ptr - self.cursor.ptr)))
            ELSE Ret([self EXCEPT !.cursor = first.iter], Err("Unexpected"))
       ELSE Ret(self, Err("EOF"))

\* Seeded fault: a successful extract_one moves the checkpoint with the cursor.
extract_one_marking(self, pattern) ==
    LET first == IterNext(self.cursor)
    IN IF first.some
       THEN IF Pattern(pattern, first.c)
            THEN Ret([cursor |-> first.iter, cursor_saved |-> first.iter],
                     Ok(SliceTo(self.cursor, first.iter.ptr - self.cursor.ptr)))
            ELSE Ret(self, Err("Unexpected"))
       ELSE Ret(self, Err("EOF"))

extract_one(self, pattern) ==
    LET first == IterNext(self.cursor)
    IN IF first.some
       THEN IF Pattern(pattern, first.c)
            THEN LET remaining_ == first.iter
                     second == IterNext(first.iter)
                     \* the index char_indices() yields with the second character
                     i == first.iter.ptr - self.cursor.ptr
                     extracted == IF ~second.some
                                  THEN self.cursor
                                  ELSE SliceTo(self.cursor, i)
                 IN Ret([self EXCEPT !.cursor = remaining_], Ok(extracted))
            ELSE Ret(self, Err("Unexpected"))
       ELSE Ret(self, Err("EOF"))

RECURSIVE skip_loop(_, _)
\* The while loop of skip: the iterator after n calls of next, or the
\* early return when one of them yields None.
skip_loop(iter, n) ==
    IF n > 0
    THEN LET nx == IterNext(iter)
         IN IF ~nx.some THEN [eof |-> TRUE, iter |-> iter]
            ELSE skip_loop(nx.iter, n - 1)
    ELSE [eof |-> FALSE, iter |-> iter]

\* Seeded fault: a skip past the end leaves the cursor where the loop stopped.
skip_partial(self, n) ==
    LET r == skip_loop(self.cursor, n)
    IN IF r.eof THEN Ret([self EXCEPT !.cursor = r.iter], Err("EOF"))
       ELSE Ret([self EXCEPT !.cursor = r.iter], Ok(NoView))

skip(self, n) ==
    LET r == skip_loop(self.cursor, n)
    IN IF r.eof THEN Ret(self, Err("EOF"))
       ELSE Ret([self EXCEPT !.cursor = r.iter], Ok(NoView))

\* Seeded fault: the forced skip on a mismatch is missing.
extract_one_greedy_noskip(self, pattern) == extract_one(self, pattern)

\* The arm Err(Error::Unexpected) of extract_one_greedy: self.skip(1)?, then
\* the error.
extract_one_greedy_skipped(sk) ==
    IF ~sk.res.ok THEN Ret(sk.lexer, Err(sk.res.err))
    ELSE Ret(sk.lexer, Err("Unexpected"))

\* The match of extract_one_greedy on the result of extract_one.
extract_one_greedy_match(one) ==
    IF ~one.res.ok /\ one.res.err = "Unexpected"
    THEN extract_one_greedy_skipped(skip(one.lexer, 1))
    ELSE one

extract_one_greedy(self, pattern) == extract_one_greedy_match(extract_one(self, pattern))

\* Seeded fault: mark() keeps the checkpoint it already has.
mark_keep(self) == self

mark(self) == [self EXCEPT !.cursor_saved = self.cursor]

\* Seeded fault: rewind() goes back to the start of the input, not to the mark.
rewind_to_start(self) == [self EXCEPT !.cursor = View("input", 0, StrLen(buf))]

rewind(self) == [self EXCEPT !.cursor = self.cursor_saved]

\* The pointer subtraction of consumed(): cursor.as_ptr() - cursor_saved.as_ptr().
consumed_length(self) == self.cursor.ptr - self.cursor_saved.ptr

consumed(self) == View(self.cursor_saved.base, self.cursor_saved.ptr, consumed_length(self))

remaining(self) == self.cursor

is_empty(self) == self.cursor.len = 0

\* ------------------------------------------------------------------------
\* Grammar (ansi.rs).

\* impl From<lex::Error> for error::Error
From(e) == "InvalidSequence"

\* The early return of the ? operator on a failed lexer call r.
Fail(r) == Ret(r.lexer, Err(From(r.res.err)))

\* s == "..." on &str: equality of contents.
StrEq(v, chars) == Content(v) = chars

\* The productions below are written as the chain of their lexer calls: each
\* step takes the result of the call before it, returns early through ? when
\* that call failed, and hands the next call's result to the next step.  The
\* steps are defined last first; the first call is at the bottom.

\* Seeded fault: a failed parse puts the cursor back where it started.
AnsiSequence_parse_rollback(lexer_) ==
    LET finalizer_(interm, fin) ==
            IF ~fin.res.ok THEN Ret(lexer_, Err("InvalidSequence"))
            ELSE Ret(fin.lexer, Ok([intermediates |-> interm.res.val,
                                    finalizer |-> fin.res.val]))
        intermediates_(interm) ==
            IF ~interm.res.ok THEN Ret(lexer_, Err("InvalidSequence"))
            ELSE finalizer_(interm, extract_one_greedy(interm.lexer, "is_sequence_finalizer"))
        opener_(opener) ==
            IF ~opener.res.ok THEN Ret(lexer_, Err("InvalidSequence"))
            ELSE intermediates_(extract(opener.lexer, "is_sequence_intermediate"))
    IN opener_(extract_one(lexer_, "is_sequence_opener"))

\* Seeded fault: the finalizer is tested with the CSI class (0x40-0x7E).
AnsiSequence_parse_csi_finalizer(lexer_) ==
    LET finalizer_(interm, fin) ==
            IF ~fin.res.ok THEN Fail(fin)
            ELSE Ret(fin.lexer, Ok([intermediates |-> interm.res.val,
                                    finalizer |-> fin.res.val]))
        intermediates_(interm) ==
            IF ~interm.res.ok THEN Fail(interm)
            ELSE finalizer_(interm, extract_one_greedy(interm.lexer, "is_csi_finalizer"))
        opener_(opener) ==
            IF ~opener.res.ok THEN Fail(opener)
            ELSE intermediates_(extract(opener.lexer, "is_sequence_intermediate"))
    IN opener_(extract_one(lexer_, "is_sequence_opener"))

\* Seeded fault: the finalizer is taken with extract_one, which leaves a
\* character that is no finalizer where it is.
AnsiSequence_parse_nongreedy(lexer_) ==
    LET finalizer_(interm, fin) ==
            IF ~fin.res.ok THEN Fail(fin)
            ELSE Ret(fin.lexer, Ok([intermediates |-> interm.res.val,
                                    finalizer |-> fin.res.val]))
        intermediates_(interm) ==
            IF ~interm.res.ok THEN Fail(interm)
            ELSE finalizer_(interm, extract_one(interm.lexer, "is_sequence_finalizer"))
        opener_(opener) ==
            IF ~opener.res.ok THEN Fail(opener)
            ELSE intermediates_(extract(opener.lexer, "is_sequence_intermediate"))
    IN opener_(extract_one(lexer_, "is_sequence_opener"))

\* Seeded fault: a failed parse rewinds the cursor to its checkpoint.
AnsiSequence_parse_rewinding(lexer_) ==
    LET finalizer_(interm, fin) ==
            IF ~fin.res.ok THEN Ret(rewind(fin.lexer), Err("InvalidSequence"))
            ELSE Ret(fin.lexer, Ok([intermediates |-> interm.res.val,
                                    finalizer |-> fin.res.val]))
        intermediates_(interm) ==
            IF ~interm.res.ok THEN Ret(rewind(interm.lexer), Err("InvalidSequence"))
            ELSE finalizer_(interm, extract_one_greedy(interm.lexer, "is_sequence_finalizer"))
        opener_(opener) ==
            IF ~opener.res.ok THEN Ret(rewind(opener.lexer), Err("InvalidSequence"))
            ELSE intermediates_(extract(opener.lexer, "is_sequence_intermediate"))
    IN opener_(extract_one(lexer_, "is_sequence_opener"))

AnsiSequence_parse(lexer_) ==
    LET finalizer_(interm, fin) ==
            IF ~fin.res.ok THEN Fail(fin)
            ELSE Ret(fin.lexer, Ok([intermediates |-> interm.res.val,
                                    finalizer |-> fin.res.val]))
        intermediates_(interm) ==
            IF ~interm.res.ok THEN Fail(interm)
            ELSE finalizer_(interm, extract_one_greedy(interm.lexer, "is_sequence_finalizer"))
        opener_(opener) ==
            IF ~opener.res.ok THEN Fail(opener)
            ELSE intermediates_(extract(opener.lexer, "is_sequence_intermediate"))
    IN opener_(extract_one(lexer_, "is_sequence_opener"))

\* Seeded fault: the intermediates are extracted before the parameters.
ControlSequence_parse_swapped(lexer_) ==
    LET finalizer_(params, interm, fin) ==
            IF ~fin.res.ok THEN Fail(fin)
            ELSE Ret(fin.lexer, Ok([parameters |-> params.res.val,
                                    intermediates |-> interm.res.val,
                                    finalizer |-> fin.res.val]))
        parameters_(interm, params) ==
            IF ~params.res.ok THEN Fail(params)
            ELSE finalizer_(params, interm,
                            extract_one_greedy(params.lexer, "is_csi_finalizer"))
        intermediates_(interm) ==
            IF ~interm.res.ok THEN Fail(interm)
            ELSE parameters_(interm, extract(interm.lexer, "is_csi_parameter"))
        introducer_(intro) ==
            IF ~intro.res.ok THEN Fail(intro)
            ELSE IF StrEq(intro.res.val, <<LBRACKET>>)
            THEN intermediates_(extract(intro.lexer, "is_csi_intermediate"))
            ELSE Ret(intro.lexer, Err("InvalidSequence"))
        opener_(opener) ==
            IF ~opener.res.ok THEN Fail(opener)
            ELSE introducer_(extract_one_greedy(opener.lexer, "is_csi_finalizer"))
    IN opener_(extract_one(lexer_, "is_sequence_opener"))

ControlSequence_parse(lexer_) ==
    LET finalizer_(params, interm, fin) ==
            IF ~fin.res.ok THEN Fail(fin)
            ELSE Ret(fin.lexer, Ok([parameters |-> params.res.val,
                                    intermediates |-> interm.res.val,
                                    finalizer |-> fin.res.val]))
        intermediates_(params, interm) ==
            IF ~interm.res.ok THEN Fail(interm)
            ELSE finalizer_(params, interm,
                            extract_one_greedy(interm.lexer, "is_csi_finalizer"))
        parameters_(params) ==
            IF ~params.res.ok THEN Fail(params)
            ELSE intermediates_(params, extract(params.lexer, "is_csi_intermediate"))
        introducer_(intro) ==
            IF ~intro.res.ok THEN Fail(intro)
            ELSE IF StrEq(intro.res.val, <<LBRACKET>>)
            THEN parameters_(extract(intro.lexer, "is_csi_parameter"))
            ELSE Ret(intro.lexer, Err("InvalidSequence"))
        opener_(opener) ==
            IF ~opener.res.ok THEN Fail(opener)
            ELSE introducer_(extract_one_greedy(opener.lexer, "is_csi_finalizer"))
    IN opener_(extract_one(lexer_, "is_sequence_opener"))

\* Seeded fault: any character after ESC closes the string.
AnsiString_parse_any_st(lexer_) ==
    LET backslash_(text, bs) ==
            IF ~bs.res.ok THEN Fail(bs)
            ELSE Ret(bs.lexer, Ok([text |-> text.res.val, finalizer |-> STATIC_ST]))
        terminator_(text, st) ==
            IF ~st.res.ok THEN Fail(st)
            ELSE IF StrEq(st.res.val, <<BEL>>)
            THEN Ret(st.lexer, Ok([text |-> text.res.val, finalizer |-> STATIC_BEL]))
            ELSE IF StrEq(st.res.val, <<ESC>>)
            THEN backslash_(text, extract_one_greedy(st.lexer, "any"))
            ELSE Ret(st.lexer, Err("InvalidSequence"))
        text_(text) ==
            IF ~text.res.ok THEN Fail(text)
            ELSE terminator_(text, extract_one_greedy(text.lexer, "is_st_opener"))
    IN text_(extract(lexer_, "not_st_opener"))

AnsiString_parse(lexer_) ==
    LET backslash_(text, bs) ==
            IF ~bs.res.ok THEN Fail(bs)
            ELSE IF StrEq(bs.res.val, <<BACKSLASH>>)
            THEN Ret(bs.lexer, Ok([text |-> text.res.val, finalizer |-> STATIC_ST]))
            ELSE Ret(bs.lexer, Err("InvalidSequence"))
        terminator_(text, st) ==
            IF ~st.res.ok THEN Fail(st)
            ELSE IF StrEq(st.res.val, <<BEL>>)
            THEN Ret(st.lexer, Ok([text |-> text.res.val, finalizer |-> STATIC_BEL]))
            ELSE IF StrEq(st.res.val, <<ESC>>)
            THEN backslash_(text, extract_one_greedy(st.lexer, "is_backslash"))
            ELSE Ret(st.lexer, Err("InvalidSequence"))
        text_(text) ==
            IF ~text.res.ok THEN Fail(text)
            ELSE terminator_(text, extract_one_greedy(text.lexer, "is_st_opener"))
    IN text_(extract(lexer_, "not_st_opener"))

\* Seeded fault: the duplicate starts at the checkpoint, not at the cursor.
clone_rewound(self) == [cursor |-> self.cursor_saved, cursor_saved |-> self.cursor_saved]

\* #[derive(Clone)] on Lexer: a copy of both fields.
clone(self) == [cursor |-> self.cursor, cursor_saved |-> self.cursor_saved]

\* Sequence::Regular(AnsiSequence::parse(lexer)?)
Sequence_Regular(lexer_) ==
    LET wrap_(seq) ==
            IF ~seq.res.ok THEN seq
            ELSE Ret(seq.lexer, Ok(<<"Regular", seq.res.val>>))
    IN wrap_(AnsiSequence_parse(lexer_))

\* Sequence::CSI(ControlSequence::parse(lexer)?)
Sequence_CSI(lexer_) ==
    LET wrap_(csi) ==
            IF ~csi.res.ok THEN csi
            ELSE Ret(csi.lexer, Ok(<<"CSI", csi.res.val>>))
    IN wrap_(ControlSequence_parse(lexer_))

\* Sequence::OSC(AnsiSequence::parse(lexer)?, AnsiString::parse(lexer)?)
Sequence_OSC(lexer_) ==
    LET wrap_(seq, str) ==
            IF ~str.res.ok THEN str
            ELSE Ret(str.lexer, Ok(<<"OSC", seq.res.val, str.res.val>>))
        header_(seq) ==
            IF ~seq.res.ok THEN seq
            ELSE wrap_(seq, AnsiString_parse(seq.lexer))
    IN header_(AnsiSequence_parse(lexer_))

\* The match of Sequence::parse on the probe's value.
Sequence_dispatch(lexer_, lookahead) ==
    IF Content(lookahead.intermediates) = <<>>
    THEN IF StrEq(lookahead.finalizer, <<LBRACKET>>) THEN Sequence_CSI(lexer_)
         ELSE IF StrEq(lookahead.finalizer, <<RBRACKET>>) THEN Sequence_OSC(lexer_)
         ELSE Sequence_Regular(lexer_)
    ELSE Sequence_Regular(lexer_)

\* Seeded fault: the branch is chosen by the finalizer alone, whether or not
\* the probe found intermediates.
Sequence_dispatch_nocheck(lexer_, lookahead) ==
    IF StrEq(lookahead.finalizer, <<LBRACKET>>) THEN Sequence_CSI(lexer_)
    ELSE IF StrEq(lookahead.finalizer, <<RBRACKET>>) THEN Sequence_OSC(lexer_)
    ELSE Sequence_Regular(lexer_)

Sequence_parse_nocheck(lexer_) ==
    LET probed_(lookahead) ==
            IF ~lookahead.res.ok THEN Ret(lexer_, lookahead.res)
            ELSE Sequence_dispatch_nocheck(lexer_, lookahead.res.val)
    IN probed_(AnsiSequence_parse(clone(lexer_)))

\* Seeded fault: the probe runs on the cursor itself, not on a duplicate.
Sequence_parse_noclone(lexer_) ==
    LET probed_(lookahead) ==
            IF ~lookahead.res.ok THEN lookahead
            ELSE Sequence_dispatch(lexer_, lookahead.res.val)
    IN probed_(AnsiSequence_parse(lexer_))

\* Seeded fault: a failed probe leaves the cursor where the duplicate stopped.
Sequence_probed_shared(lexer_, lookahead) ==
    IF ~lookahead.res.ok THEN lookahead
    ELSE Sequence_dispatch(lexer_, lookahead.res.val)

\* The probe's failure leaves through ?, with lexer as it was: only the
\* duplicate was handed to the probe.
Sequence_probed(lexer_, lookahead) ==
    IF ~lookahead.res.ok THEN Ret(lexer_, lookahead.res)
    ELSE Sequence_dispatch(lexer_, lookahead.res.val)

Sequence_parse(lexer_) == Sequence_probed(lexer_, AnsiSequence_parse(clone(lexer_)))

\* ------------------------------------------------------------------------
\* State machine.

Inputs(chars, maxlen) == UNION {[1..n -> chars] : n \in 0..maxlen}

\* Predicates the callers of the lexer API pass.
Patterns == {"is_st_opener", "not_st_opener", "is_sequence_intermediate", "any", "none"}

\* Predicates passed in the two-cursor specification.
ClonePatterns == {"is_st_opener", "any"}

Targets == IF dup = <<>> THEN {"lexer"} ELSE {"lexer", "dup"}

Get(t) == IF t = "lexer" THEN lexer ELSE dup[1]

\* Seeded fault: the duplicate shares the cursor's state, so a call on one
\* shows on the other.
Put_aliased(t, l) ==
    lexer' = l /\ dup' = IF dup = <<>> THEN dup ELSE <<l>>

\* Store lexer l as the new value of cursor t.
Put(t, l) ==
    IF t = "lexer" THEN lexer' = l /\ dup' = dup
    ELSE lexer' = lexer /\ dup' = <<l>>

Called(o, t, p, k, r) ==
    last' = [op |-> o, target |-> t, pat |-> p, n |-> k, pre |-> Get(t), res |-> r]

InitOver(inputs) ==
    /\ buf \in inputs
    /\ lexer = Lexer_new(View("input", 0, StrLen(buf)))
    /\ dup = <<>>
    /\ last = [op |-> "new", target |-> "lexer", pat |-> "none", n |-> 0,
               pre |-> lexer, res |-> Ok(NoView)]
    /\ marked = [lexer |-> buf, dup |-> <<>>]

Init == InitOver(Inputs(LexAlphabet, MaxLen))

InitParse == InitOver(Inputs(Alphabet, MaxParseLen))

InitClone == InitOver(Inputs(CloneAlphabet, MaxCloneLen))

Extract(t, pats) ==
    \E p \in pats :
        LET r == extract(Get(t), p)
        IN Put(t, r.lexer) /\ Called("extract", t, p, 0, r.res) /\ UNCHANGED <<buf, marked>>

ExtractOne(t, pats) ==
    \E p \in pats :
        LET r == extract_one(Get(t), p)
        IN Put(t, r.lexer) /\ Called("extract_one", t, p, 0, r.res) /\ UNCHANGED <<buf, marked>>

ExtractOneGreedy(t, pats) ==
    \E p \in pats :
        LET r == extract_one_greedy(Get(t), p)
        IN Put(t, r.lexer) /\ Called("extract_one_greedy", t, p, 0, r.res) /\ UNCHANGED <<buf, marked>>

Skip(t) ==
    \E k \in 0..MaxSkip :
        LET r == skip(Get(t), k)
        IN Put(t, r.lexer) /\ Called("skip", t, "none", k, r.res) /\ UNCHANGED <<buf, marked>>

Mark(t) ==
    /\ Put(t, mark(Get(t)))
    /\ Called("mark", t, "none", 0, Ok(NoView))
    /\ marked' = [marked EXCEPT ![t] = Content(remaining(Get(t)))]
    /\ UNCHANGED buf

Rewind(t) ==
    Put(t, rewind(Get(t))) /\ Called("rewind", t, "none", 0, Ok(NoView)) /\ UNCHANGED <<buf, marked>>

Clone ==
    /\ dup' = <<clone(lexer)>>
    /\ last' = [op |-> "clone", target |-> "lexer", pat |-> "none", n |-> 0,
                pre |-> lexer, res |-> Ok(NoView)]
    /\ marked' = [marked EXCEPT !.dup = marked.lexer]
    /\ UNCHANGED <<buf, lexer>>

ParseAnsiSequence(t) ==
    LET r == AnsiSequence_parse(Get(t))
    IN Put(t, r.lexer) /\ Called("AnsiSequence", t, "none", 0, r.res) /\ UNCHANGED <<buf, marked>>

ParseControlSequence(t) ==
    LET r == ControlSequence_parse(Get(t))
    IN Put(t, r.lexer) /\ Called("ControlSequence", t, "none", 0, r.res) /\ UNCHANGED <<buf, marked>>

ParseAnsiString(t) ==
    LET r == AnsiString_parse(Get(t))
    IN Put(t, r.lexer) /\ Called("AnsiString", t, "none", 0, r.res) /\ UNCHANGED <<buf, marked>>

ParseSequence(t) ==
    LET r == Sequence_parse(Get(t))
    IN Put(t, r.lexer) /\ Called("Sequence", t, "none", 0, r.res) /\ UNCHANGED <<buf, marked>>

\* The cursor API on one cursor.
Next ==
    \/ Extract("lexer", Patterns)
    \/ ExtractOne("lexer", Patterns)
    \/ ExtractOneGreedy("lexer", Patterns)
    \/ Skip("lexer")
    \/ Mark("lexer")
    \/ Rewind("lexer")

Spec == Init /\ [][Next]_vars

\* The grammar productions on one cursor.
NextParse ==
    \/ ParseAnsiSequence("lexer")
    \/ ParseControlSequence("lexer")
    \/ ParseAnsiString("lexer")
    \/ ParseSequence("lexer")

SpecParse == InitParse /\ [][NextParse]_vars

\* Control sequences, alone and through Sequence, on longer inputs.
InitCSI == InitOver(Inputs(CsiAlphabet, MaxCsiLen))

NextCSI ==
    \/ ParseControlSequence("lexer")
    \/ ParseSequence("lexer")

SpecCSI == InitCSI /\ [][NextCSI]_vars

\* Predicates passed in the specification of duplicates and productions.
DupPatterns == {"is_st_opener"}

InitDup == InitOver(Inputs(DupAlphabet, MaxDupLen))

\* The cursor API and the productions on a cursor and its duplicate.
NextDup ==
    \/ Clone
    \/ \E t \in Targets :
          \/ Extract(t, DupPatterns)
          \/ ExtractOne(t, DupPatterns)
          \/ ExtractOneGreedy(t, DupPatterns)
          \/ Skip(t)
          \/ Mark(t)
          \/ Rewind(t)
          \/ ParseAnsiSequence(t)
          \/ ParseControlSequence(t)
          \/ ParseAnsiString(t)
          \/ ParseSequence(t)

SpecDup == InitDup /\ [][NextDup]_vars

\* The cursor API on a cursor and its duplicate.
NextClone ==
    \/ Clone
    \/ \E t \in Targets :
          \/ Extract(t, ClonePatterns)
          \/ ExtractOne(t, ClonePatterns)
          \/ ExtractOneGreedy(t, ClonePatterns)
          \/ Skip(t)
          \/ Mark(t)
          \/ Rewind(t)

SpecClone == InitClone /\ [][NextClone]_vars

\* ------------------------------------------------------------------------
\* Properties of the cursor.

\* The cursor the last call ran on, as that call left it.
Cur == Get(last.target)

\* Every cursor alive.
Cursors == {lexer} \cup {dup[i] : i \in DOMAIN dup}

\* The text a cursor has left.
Rem(l) == Content(remaining(l))

\* The text of the input buffer from byte `off` on.
BufferFrom(off) == SubSeq(buf, CharsBefore(off) + 1, Len(buf))

\* Length of the longest prefix of text s whose characters all satisfy p.
RunLen(s, p) ==
    CHOOSE k \in 0..Len(s) :
        /\ \A i \in 1..k : Pattern(p, s[i])
        /\ k = Len(s) \/ ~Pattern(p, s[k + 1])

\* Text s without its first k characters.
Drop(s, k) == SubSeq(s, k + 1, Len(s))

\* C4: after any calls of the cursor API, successful or not, consumed()
\* followed by remaining() is the input buffer from the marked position on:
\* no character is lost or duplicated.
C4_ConsumedThenRemaining ==
    \A l \in Cursors :
        Content(consumed(l)) \o Content(remaining(l)) = BufferFrom(l.cursor_saved.ptr)

C4_Witness ==
    /\ last.op = "extract_one_greedy" /\ ~last.res.ok
    /\ lexer.cursor_saved.ptr > 0
    /\ Content(consumed(lexer)) # <<>>
    /\ Rem(lexer) # <<>>

\* C5: in every state the cursor API reaches (new, clone, extract,
\* extract_one, extract_one_greedy, skip, mark, rewind), each cursor's
\* position is at or ahead of its mark within the same buffer, so the length
\* consumed() computes is neither negative nor longer than the marked view.
C5_CursorAheadOfMark ==
    \A l \in Cursors :
        /\ l.cursor.base = "input" /\ l.cursor_saved.base = "input"
        /\ l.cursor.ptr >= l.cursor_saved.ptr
        /\ l.cursor.ptr + l.cursor.len = l.cursor_saved.ptr + l.cursor_saved.len
        /\ consumed_length(l) >= 0
        /\ consumed_length(l) <= l.cursor_saved.len

C5_Witness ==
    /\ dup # <<>>
    /\ last.op = "rewind" /\ last.target = "dup"
    /\ last.pre.cursor.ptr > last.pre.cursor_saved.ptr
    /\ dup[1].cursor_saved.ptr > 0
    /\ lexer.cursor.ptr > lexer.cursor_saved.ptr
    /\ lexer.cursor_saved.ptr # dup[1].cursor_saved.ptr

\* C6: extract(p) on a cursor with input left succeeds, returns the longest
\* leading run of characters satisfying p (possibly empty) and advances past
\* exactly that run; it fails, with EOF, exactly when the cursor was
\* exhausted, and then changes nothing.
C6_Extract ==
    last.op = "extract" =>
        LET R == Rem(last.pre)
            k == RunLen(R, last.pat)
        IN IF R = <<>>
           THEN last.res = Err("EOF") /\ Cur = last.pre
           ELSE /\ last.res.ok
                /\ last.res.val.ptr = last.pre.cursor.ptr
                /\ Content(last.res.val) = SubSeq(R, 1, k)
                /\ Rem(Cur) = Drop(R, k)
                /\ Cur.cursor_saved = last.pre.cursor_saved

C6_Witness ==
    /\ last.op = "extract" /\ last.res.ok
    /\ Len(Content(last.res.val)) >= 2
    /\ 233 \in {Content(last.res.val)[i] : i \in 1..Len(Content(last.res.val))}
    /\ Rem(lexer) # <<>>

\* C7: extract_one(p) has three outcomes: on an exhausted cursor EOF and no
\* change; if the next character satisfies p, that one character is consumed
\* and returned; otherwise Unexpected and no change, so the next call sees
\* the same character.
C7_ExtractOne ==
    last.op = "extract_one" =>
        LET R == Rem(last.pre)
        IN IF R = <<>>
           THEN last.res = Err("EOF") /\ Cur = last.pre
           ELSE IF Pattern(last.pat, R[1])
           THEN /\ last.res.ok
                /\ last.res.val.ptr = last.pre.cursor.ptr
                /\ Content(last.res.val) = <<R[1]>>
                /\ Rem(Cur) = Tail(R)
                /\ Cur.cursor_saved = last.pre.cursor_saved
           ELSE last.res = Err("Unexpected") /\ Cur = last.pre

C7_Witness ==
    /\ last.op = "extract_one" /\ last.res = Err("Unexpected")
    /\ Rem(lexer) # <<>> /\ Rem(lexer) = Rem(last.pre)
    /\ lexer.cursor.ptr > 0

\* C8: extract_one_greedy(p) is extract_one(p) on a match and on an exhausted
\* cursor; on a mismatch it advances by exactly one character and returns
\* Unexpected.  So with input left it advances by exactly one character
\* whatever p is, and never returns EOF.
C8_ExtractOneGreedy ==
    last.op = "extract_one_greedy" =>
        LET R == Rem(last.pre)
        IN IF R = <<>>
           THEN last.res = Err("EOF") /\ Cur = last.pre
           ELSE /\ Rem(Cur) = Tail(R)
                /\ Cur.cursor_saved = last.pre.cursor_saved
                /\ IF Pattern(last.pat, R[1])
                   THEN /\ last.res.ok
                        /\ last.res.val.ptr = last.pre.cursor.ptr
                        /\ Content(last.res.val) = <<R[1]>>
                   ELSE last.res = Err("Unexpected")

C8_Witness ==
    /\ last.op = "extract_one_greedy" /\ last.res = Err("Unexpected")
    /\ Rem(last.pre)[1] = 233
    /\ Len(Rem(lexer)) = Len(Rem(last.pre)) - 1
    /\ Rem(lexer) # <<>>

C10_MarkRewind ==
    /\ last.op = "rewind" => Rem(Cur) = marked[last.target]
    /\ last.op = "mark" => Rem(Cur) = Rem(last.pre) /\ marked[last.target] = Rem(Cur)
    /\ last.op \in {"mark", "rewind"} => Content(consumed(Cur)) = <<>>

C10_Witness ==
    /\ last.op = "rewind"
    /\ Len(marked.lexer) < Len(buf)
    /\ Len(Rem(last.pre)) < Len(marked.lexer)
    /\ Rem(lexer) = marked.lexer

\* ------------------------------------------------------------------------
\* Properties of the grammar.

Productions == {"AnsiSequence", "ControlSequence", "AnsiString", "Sequence"}

\* Length of the longest prefix of text s whose characters are all in set S.
RunIn(s, S) ==
    CHOOSE k \in 0..Len(s) :
        /\ \A i \in 1..k : s[i] \in S
        /\ k = Len(s) \/ s[k + 1] \notin S

\* Text R begins with ESC, characters in 0x20-0x2F and one in 0x30-0x7E.
IsGenericPrefix(R) ==
    /\ R # <<>> /\ R[1] = 27
    /\ LET k == RunIn(Tail(R), 32..47)
       IN k + 2 <= Len(R) /\ R[k + 2] \in 48..126

\* Number of characters the last call consumed.
Consumed == Len(Rem(last.pre)) - Len(Rem(Cur))

\* The lookahead probe of the last Sequence parse.
Probe == AnsiSequence_parse(clone(last.pre))

\* C1: Sequence parse dispatches on the probe of a duplicate cursor.  When
\* the probe succeeds: intermediates not empty, or a finalizer other than
\* '[' and ']', give Regular, parsed from the real cursor; no intermediates
\* and '[' give what ControlSequence parse yields on the real cursor; no
\* intermediates and ']' give the GenericSequence header followed at once by
\* the StringRun, both parsed from the real cursor.
C1_Dispatch ==
    (last.op = "Sequence" /\ Probe.res.ok) =>
        LET I == Content(Probe.res.val.intermediates)
            F == Content(Probe.res.val.finalizer)
        IN IF I # <<>> \/ (F # <<91>> /\ F # <<93>>)
           THEN /\ last.res.ok
                /\ last.res.val = <<"Regular", Probe.res.val>>
                /\ Cur = Probe.lexer
           ELSE IF F = <<91>>
           THEN LET csi == ControlSequence_parse(last.pre)
                IN /\ Cur = csi.lexer
                   /\ IF csi.res.ok
                      THEN last.res.ok /\ last.res.val = <<"CSI", csi.res.val>>
                      ELSE last.res = Err("InvalidSequence")
           ELSE LET header == AnsiSequence_parse(last.pre)
                    string == AnsiString_parse(header.lexer)
                IN /\ header.res.ok /\ header.res.val = Probe.res.val
                   /\ Cur = string.lexer
                   /\ IF string.res.ok
                      THEN last.res.ok /\ last.res.val = <<"OSC", header.res.val, string.res.val>>
                      ELSE last.res = Err("InvalidSequence")

C1_Witness ==
    /\ last.op = "Sequence" /\ last.res.ok
    /\ last.res.val[1] = "OSC"
    /\ Content(last.res.val[3].text) # <<>>

\* C2 as stated: every failed Sequence parse on a cursor with input left
\* moves the cursor forward (so a loop that repeats the parse and ignores
\* InvalidSequence exhausts the cursor).
C2_FailedParseAdvances ==
    (last.op = "Sequence" /\ ~last.res.ok /\ Rem(last.pre) # <<>>) =>
        Cur.cursor.ptr > last.pre.cursor.ptr

\* C2 amended: a failed Sequence parse moves the cursor forward exactly when
\* the remaining input begins with a generic sequence (the probe succeeded
\* and the chosen branch failed); otherwise the cursor is left as it was, so
\* repeating the parse repeats the failure at the same position.
C2_FailedParseAdvancesOnlyAfterProbe ==
    (last.op = "Sequence" /\ ~last.res.ok) =>
        IF IsGenericPrefix(Rem(last.pre))
        THEN Cur.cursor.ptr > last.pre.cursor.ptr
        ELSE Cur = last.pre /\ Sequence_parse(Cur) = Ret(Cur, last.res)

C2_Witness ==
    /\ last.op = "Sequence" /\ ~last.res.ok
    /\ Len(Rem(last.pre)) >= 2 /\ Rem(last.pre)[1] = 27
    /\ lexer = last.pre
    /\ lexer.cursor.ptr > 0

\* Characters a failing GenericSequence parse of text R consumes: the opener,
\* the intermediates and the character that is no finalizer, if there is one.
GenericFailLen(R) ==
    IF R = <<>> \/ R[1] # 27 THEN 0
    ELSE LET k == RunIn(Tail(R), 32..47)
         IN IF k + 1 = Len(R) THEN k + 1 ELSE k + 2

\* Characters a failing ControlSequence parse of text R consumes.
ControlFailLen(R) ==
    IF R = <<>> \/ R[1] # 27 THEN 0
    ELSE IF Len(R) = 1 THEN 1
    ELSE IF R[2] # 91 THEN 2
    ELSE LET p == RunIn(Drop(R, 2), 48..63)
             i == RunIn(Drop(R, 2 + p), 32..47)
         IN IF 2 + p + i = Len(R) THEN 2 + p + i ELSE 2 + p + i + 1

\* Characters a failing StringRun parse of text R consumes.
StringFailLen(R) ==
    LET t == RunIn(R, {c \in Alphabet : c # 7 /\ c # 27})
    IN IF t = Len(R) THEN t
       ELSE IF t + 1 = Len(R) THEN t + 1
       ELSE t + 2

\* Characters a failing Sequence parse of text R consumes.
SequenceFailLen(R) ==
    IF ~IsGenericPrefix(R) THEN 0
    ELSE IF R[2] = 91 THEN ControlFailLen(R)
    ELSE 2 + StringFailLen(Drop(R, 2))

FailLen(op, R) ==
    CASE op = "AnsiSequence" -> GenericFailLen(R)
      [] op = "ControlSequence" -> ControlFailLen(R)
      [] op = "AnsiString" -> StringFailLen(R)
      [] op = "Sequence" -> SequenceFailLen(R)

\* C3 as stated: a production that returns InvalidSequence leaves the
\* remaining input as it was, but for at most the one force-skipped character.
C3_FailureConsumesAtMostOne ==
    (last.op \in Productions /\ ~last.res.ok) =>
        Rem(Cur) = Drop(Rem(last.pre), Consumed) /\ Consumed \in {0, 1}

\* C3 amended: a production that returns InvalidSequence does not roll back.
\* The cursor stays where the failing extraction left it: past everything
\* matched before the failure and, after a mismatch in a greedy extraction,
\* past the offending character.  It is unchanged only when the first
\* extraction fails (for Sequence: when the probe fails).
C3_FailureKeepsWhatMatched ==
    (last.op \in Productions /\ ~last.res.ok) =>
        /\ last.res = Err("InvalidSequence")
        /\ Consumed = FailLen(last.op, Rem(last.pre))
        /\ Rem(Cur) = Drop(Rem(last.pre), Consumed)
        /\ Cur.cursor_saved = last.pre.cursor_saved

C3_Witness ==
    /\ last.op = "ControlSequence" /\ ~last.res.ok
    /\ Consumed >= 3
    /\ Rem(lexer) # <<>>

\* ------------------------------------------------------------------------
\* Contracts of the productions.

\* The view of the input buffer that holds the n characters following the
\* first k characters left to the cursor l.
ViewAt(l, k, n) ==
    View("input", l.cursor.ptr + StrLen(SubSeq(Rem(l), 1, k)),
         StrLen(SubSeq(Rem(l), k + 1, k + n)))

RECURSIVE GenericSplit(_)
\* Text R read as generic sequences one after the other: whether it is
\* nothing but such sequences, and their intermediates and finalizers.
GenericSplit(R) ==
    IF R = <<>> THEN [ok |-> TRUE, seqs |-> <<>>]
    ELSE IF ~IsGenericPrefix(R) THEN [ok |-> FALSE, seqs |-> <<>>]
    ELSE LET k == RunIn(Tail(R), 32..47)
             rest == GenericSplit(Drop(R, k + 2))
         IN [ok |-> rest.ok,
             seqs |-> <<[intermediates |-> SubSeq(R, 2, k + 1),
                         finalizer |-> <<R[k + 2]>>]>> \o rest.seqs]

RECURSIVE ParseAllGeneric(_, _)
\* GenericSequence parse called on cursor l until the cursor is exhausted or
\* a call fails, n times at most: the values returned, in order.
ParseAllGeneric(l, n) ==
    IF n = 0 \/ Rem(l) = <<>> THEN [ok |-> TRUE, seqs |-> <<>>, lexer |-> l]
    ELSE LET r == AnsiSequence_parse(l)
         IN IF ~r.res.ok THEN [ok |-> FALSE, seqs |-> <<>>, lexer |-> r.lexer]
            ELSE LET rest == ParseAllGeneric(r.lexer, n - 1)
                 IN [ok |-> rest.ok,
                     seqs |-> <<[intermediates |-> Content(r.res.val.intermediates),
                                 finalizer |-> Content(r.res.val.finalizer)]>> \o rest.seqs,
                     lexer |-> rest.lexer]

\* C11: GenericSequence parse succeeds exactly when the remaining input
\* starts with ESC, characters in 0x20-0x2F (none or more) and one character
\* in 0x30-0x7E; then intermediates is that maximal run, finalizer that one
\* character, and the cursor is past exactly ESC, intermediates and
\* finalizer.  So parses repeated over concatenated sequences return them in
\* order and leave nothing behind.
C11_GenericSequence ==
    last.op = "AnsiSequence" =>
        LET R == Rem(last.pre)
            k == RunIn(Tail(R), 32..47)
            all == ParseAllGeneric(last.pre, Len(R))
        IN /\ last.res.ok <=> IsGenericPrefix(R)
           /\ last.res.ok =>
                /\ last.res.val.intermediates = ViewAt(last.pre, 1, k)
                /\ Content(last.res.val.intermediates) = SubSeq(R, 2, k + 1)
                /\ last.res.val.finalizer = ViewAt(last.pre, k + 1, 1)
                /\ Content(last.res.val.finalizer) = <<R[k + 2]>>
                /\ Rem(Cur) = Drop(R, k + 2)
                /\ Cur.cursor_saved = last.pre.cursor_saved
           /\ GenericSplit(R).ok =>
                /\ all.ok
                /\ all.seqs = GenericSplit(R).seqs
                /\ Rem(all.lexer) = <<>>

C11_Witness ==
    /\ last.op = "AnsiSequence" /\ last.res.ok
    /\ last.pre.cursor.ptr > 0
    /\ GenericSplit(buf).ok /\ Len(GenericSplit(buf).seqs) = 2
    /\ Rem(lexer) = <<>>

\* Text R begins with ESC, '[', characters in 0x30-0x3F, characters in
\* 0x20-0x2F and one character in 0x40-0x7E.
IsControlPrefix(R) ==
    /\ Len(R) >= 2 /\ R[1] = 27 /\ R[2] = 91
    /\ LET p == RunIn(Drop(R, 2), 48..63)
           i == RunIn(Drop(R, 2 + p), 32..47)
       IN 2 + p + i + 1 <= Len(R) /\ R[2 + p + i + 1] \in 64..126

Chars(s) == {s[i] : i \in 1..Len(s)}

\* C13: StringRun parse on a cursor with input left takes as text the
\* maximal leading run, possibly empty, of characters other than BEL and ESC.
\* It succeeds with terminator BEL when BEL comes next and with terminator
\* ESC-backslash when ESC and a backslash come next, and the cursor is then
\* past exactly text and terminator; when the text is followed by ESC and
\* anything but a backslash, or by the end of input, it returns
\* InvalidSequence.  A text returned never contains BEL or ESC.
C13_StringRun ==
    (last.op = "AnsiString" /\ Rem(last.pre) # <<>>) =>
        LET R == Rem(last.pre)
            t == RunIn(R, Alphabet \ {7, 27})
            bel == t + 1 <= Len(R) /\ R[t + 1] = 7
            st == t + 2 <= Len(R) /\ R[t + 1] = 27 /\ R[t + 2] = 92
        IN /\ last.res.ok <=> (bel \/ st)
           /\ last.res.ok =>
                /\ last.res.val.text = ViewAt(last.pre, 0, t)
                /\ Content(last.res.val.text) = SubSeq(R, 1, t)
                /\ Chars(Content(last.res.val.text)) \cap {7, 27} = {}
                /\ Cur.cursor_saved = last.pre.cursor_saved
           /\ bel => /\ Content(last.res.val.finalizer) = <<7>>
                     /\ Rem(Cur) = Drop(R, t + 1)
           /\ st => /\ Content(last.res.val.finalizer) = <<27, 92>>
                    /\ Rem(Cur) = Drop(R, t + 2)
           /\ (t + 2 <= Len(R) /\ R[t + 1] = 27 /\ R[t + 2] # 92) =>
                last.res = Err("InvalidSequence")
           /\ t = Len(R) => last.res = Err("InvalidSequence")
           /\ ~last.res.ok => last.res = Err("InvalidSequence")

C13_Witness ==
    /\ last.op = "AnsiString" /\ last.res.ok
    /\ Content(last.res.val.text) # <<>>
    /\ Content(last.res.val.finalizer) = <<27, 92>>
    /\ Rem(lexer) # <<>>

\* C14: when GenericSequence parse fails because the character after the
\* opener and the intermediates is no generic finalizer (outside 0x30-0x7E),
\* it returns InvalidSequence and the cursor is past the opener, the
\* intermediates and that one character; on input ESC ESC the parse fails
\* and remaining() is empty afterwards.
C14_GenericFailureSkipsOffender ==
    last.op = "AnsiSequence" =>
        LET R == Rem(last.pre)
            k == RunIn(Tail(R), 32..47)
        IN (R # <<>> /\ R[1] = 27 /\ k + 2 <= Len(R) /\ R[k + 2] \notin 48..126) =>
              /\ last.res = Err("InvalidSequence")
              /\ Rem(Cur) = Drop(R, k + 2)
              /\ Cur.cursor.ptr = last.pre.cursor.ptr + StrLen(SubSeq(R, 1, k + 2))
              /\ Cur.cursor_saved = last.pre.cursor_saved
              /\ R = <<27, 27>> => Rem(Cur) = <<>> /\ is_empty(Cur)

C14_Witness ==
    /\ buf = <<27, 27>>
    /\ last.op = "AnsiSequence" /\ last.res = Err("InvalidSequence")
    /\ last.pre.cursor.ptr = 0
    /\ Rem(lexer) = <<>>

\* ------------------------------------------------------------------------
\* Relations between calls.

\* The predicates of Patterns whose complement is in Patterns too.
Complemented == {"is_st_opener", "not_st_opener", "any", "none"}

Complement(p) ==
    CASE p = "is_st_opener" -> "not_st_opener"
      [] p = "not_st_opener" -> "is_st_opener"
      [] p = "any" -> "none"
      [] p = "none" -> "any"

RECURSIVE Alternate(_, _, _)
\* extract called on cursor l with p, its complement, p, ... until a call
\* fails, n + 1 times at most: the runs returned, whether the failure was
\* EOF, and the cursor at the end.
Alternate(l, p, n) ==
    LET r == extract(l, p)
    IN IF ~r.res.ok THEN [eof |-> r.res.err = "EOF", runs |-> <<>>, lexer |-> r.lexer]
       ELSE IF n = 0 THEN [eof |-> FALSE, runs |-> <<Content(r.res.val)>>, lexer |-> r.lexer]
       ELSE LET rest == Alternate(r.lexer, Complement(p), n - 1)
            IN [eof |-> rest.eof, runs |-> <<Content(r.res.val)>> \o rest.runs,
                lexer |-> rest.lexer]

RECURSIVE Flatten(_)
\* The texts of a sequence, concatenated.
Flatten(ss) == IF ss = <<>> THEN <<>> ELSE Head(ss) \o Flatten(Tail(ss))

\* C15: for any input and any predicate p, extract called alternately with p
\* and with its complement until it returns EOF yields finitely many runs
\* whose concatenation is the text that remained before the first call; two
\* consecutive calls on a cursor with input left consume at least one
\* character, so the alternation ends.
C15_AlternationPartitions ==
    \A p \in Complemented : \A l \in {last.pre, lexer} :
        LET R == Rem(l)
            a == Alternate(l, p, 2 * Len(R))
            one == extract(l, p)
            two == extract(one.lexer, Complement(p))
        IN /\ a.eof
           /\ Len(a.runs) <= 2 * Len(R)
           /\ Flatten(a.runs) = R
           /\ Rem(a.lexer) = <<>>
           /\ R # <<>> => one.res.ok /\ Len(Rem(two.lexer)) < Len(R)
           /\ (last.op = "extract" /\ last.pat = p /\ l = last.pre /\ last.res.ok) =>
                a.runs[1] = Content(last.res.val)

C15_Witness ==
    /\ last.op = "extract" /\ last.res.ok /\ last.pat = "is_st_opener"
    /\ 233 \in Chars(Rem(last.pre))
    /\ Len(Alternate(last.pre, last.pat, 2 * Len(Rem(last.pre))).runs) >= 3

\* ------------------------------------------------------------------------
\* Frame properties.

IsSuffix(s, t) == Len(s) <= Len(t) /\ s = Drop(t, Len(t) - Len(s))

\* C17: every production parse (GenericSequence, ControlSequence, StringRun,
\* Sequence) returns on every finite input, with a value or with
\* InvalidSequence, and never moves the cursor backwards or past the end of
\* the input: what remains after the call is a suffix of what remained
\* before it.  (In SpecParse each of the four productions is called in every
\* state, and each call is one step: the property is stated of the step's
\* outcome.)
C17_ProductionsReturn ==
    last.op \in Productions =>
          /\ last.res.ok \/ last.res = Err("InvalidSequence")
          /\ IsSuffix(Rem(Cur), Rem(last.pre))
          /\ Cur.cursor.base = "input"
          /\ Cur.cursor.ptr >= last.pre.cursor.ptr
          /\ Cur.cursor.ptr + Cur.cursor.len = StrLen(buf)
          /\ Cur.cursor.len >= 0

C17_Witness ==
    /\ last.op = "Sequence" /\ ~last.res.ok
    /\ last.pre.cursor.ptr > 0
    /\ lexer.cursor.ptr > last.pre.cursor.ptr

\* C18: when the lookahead probe of Sequence parse fails (cursor exhausted,
\* first character not ESC, ESC at the end of input, or no generic finalizer
\* after the intermediates), Sequence parse returns InvalidSequence and the
\* real cursor is exactly as it was before the call: nothing is consumed,
\* not even the one character the probe force-skipped on the duplicate.
C18_FailedProbeLeavesCursor ==
    last.op = "Sequence" =>
        LET R == Rem(last.pre)
            k == RunIn(Tail(R), 32..47)
            exhausted == R = <<>>
            notEsc == R # <<>> /\ R[1] # 27
            atEnd == R # <<>> /\ R[1] = 27 /\ k + 1 = Len(R)
            noFinalizer == R # <<>> /\ R[1] = 27 /\ k + 2 <= Len(R) /\ R[k + 2] \notin 48..126
        IN /\ ~Probe.res.ok <=> (exhausted \/ notEsc \/ atEnd \/ noFinalizer)
           /\ ~Probe.res.ok =>
                /\ last.res = Err("InvalidSequence")
                /\ Cur = last.pre
                /\ Rem(Cur) = R
           /\ noFinalizer =>
                Probe.lexer.cursor.ptr = last.pre.cursor.ptr + StrLen(SubSeq(R, 1, k + 2))

C18_Witness ==
    /\ last.op = "Sequence" /\ last.res = Err("InvalidSequence")
    /\ ~Probe.res.ok
    /\ Probe.lexer.cursor.ptr > last.pre.cursor.ptr
    /\ last.pre.cursor.ptr > 0
    /\ lexer = last.pre

\* C19: whenever the GenericSequence probe on the duplicate succeeds, the
\* GenericSequence parse that Sequence parse then runs on the real cursor
\* (the Regular branch and the header of the string-terminated branch)
\* cannot fail: it returns the intermediates and finalizer the probe
\* returned and leaves the real cursor where the duplicate ended.  The
\* ControlSequence branch has no such guarantee (the witness is followed by
\* a successful probe whose ControlSequence parse fails).
C19_ReparseRepeatsProbe ==
    (last.op = "Sequence" /\ Probe.res.ok) =>
        LET I == Content(Probe.res.val.intermediates)
            F == Content(Probe.res.val.finalizer)
            again == AnsiSequence_parse(last.pre)
        IN ~(I = <<>> /\ F = <<91>>) =>
              /\ again.res.ok
              /\ again.res.val = Probe.res.val
              /\ again.lexer = Probe.lexer
              /\ IF I = <<>> /\ F = <<93>>
                 THEN /\ Cur = AnsiString_parse(Probe.lexer).lexer
                      /\ last.res.ok => last.res.val[2] = Probe.res.val
                 ELSE /\ last.res.ok
                      /\ last.res.val = <<"Regular", Probe.res.val>>
                      /\ Cur = Probe.lexer

C19_Witness ==
    /\ last.op = "Sequence" /\ last.res.ok /\ last.res.val[1] = "Regular"
    /\ lexer = Probe.lexer
    /\ AnsiSequence_parse(clone(lexer)).res.ok
    /\ ~Sequence_parse(lexer).res.ok

FieldsOf(rec) == {rec[f] : f \in DOMAIN rec}

\* The &str fields of the value the last production returned.
ValueFields ==
    IF last.op = "Sequence"
    THEN UNION {FieldsOf(last.res.val[i]) : i \in 2..Len(last.res.val)}
    ELSE FieldsOf(last.res.val)

\* C21: every field of every value a production returns (intermediates,
\* finalizer, parameters, text and the StringRun terminator) is a view into
\* the input buffer: a contiguous range of its positions inside the text the
\* call consumed; no field is a copy or a constant outside the buffer.
C21_FieldsAreViewsOfInput ==
    (last.op \in Productions /\ last.res.ok) =>
        \A f \in ValueFields :
            /\ f.base = "input"
            /\ f.len >= 0
            /\ f.ptr >= last.pre.cursor.ptr
            /\ f.ptr + f.len <= Cur.cursor.ptr

====
